---- MODULE Spec2Model ----
(***************************************************************************)
(* Model of perso (src/src/main.rs): a single-document RAG chat CLI.       *)
(*                                                                         *)
(* main() runs the startup steps (client, PDF load, embeddings and vector  *)
(* store, agent) and then run_chat_loop().  The state is the position of   *)
(* the single thread of control (pc), the values main() and the loop hold, *)
(* and `trace`, the sequence of effects the process has had on the         *)
(* outside world: lines written to stdout and stderr, lines read from      *)
(* stdin, and calls to the external collaborators (PDF extractor,          *)
(* embedding service, completion service).                                 *)
(*                                                                         *)
(* Text is a sequence of one-character strings so that trim() is computed. *)
(* Under Spec println!/eprintln! succeed and the two I/O results the code  *)
(* inspects itself (stdout.flush() and stdin.read_line()) can fail; SpecIO *)
(* adds the println! whose write to stdout fails, which panics.            *)
(***************************************************************************)
EXTENDS Integers, Sequences, FiniteSets, TLC

VARIABLES pc, fs, content, vector_store, agent, input, query, qvec, context,
          result, trace, reads, exitStatus

vars == <<pc, fs, content, vector_store, agent, input, query, qvec, context,
          result, trace, reads, exitStatus>>

\* ---------------------------------------------------------------- bounds
\* Number of read_line calls explored in one session.
MaxReads == 2

\* Largest index and largest k of the index queries explored on their own.
MaxStore == 3
MaxK == 4

\* ------------------------------------------------------------- constants
PDF_PATH == "knowledge.pdf"
LLM_MODEL == "llama3:latest"
PREAMBLE == "You are 'Perso'"
TOP_K_RESULTS == 3

\* ------------------------------------------------------------------ text
SP == " "
TAB == "TAB"
CR == "CR"
NL == "NL"
\* The characters of the model's alphabet that str::trim() strips.
WhiteSpace == {SP, TAB, CR, NL}

EXIT == <<"e", "x", "i", "t">>
QUIT == <<"q", "u", "i", "t">>
NoText == <<>>

\* What read_line can leave in the buffer: end of input (nothing), and
\* lines with their terminator.
Lines ==
  { <<>>,
    <<NL>>,
    <<SP, TAB, NL>>,
    <<"e", "x", "i", "t", NL>>,
    <<SP, "q", "u", "i", "t", CR, NL>>,
    <<"E", "x", "i", "t", NL>>,
    <<"Q", "U", "I", "T", NL>>,
    <<"e", "x", "i", "t", SP, "n", "o", "w", NL>>,
    <<"h", "i", NL>> }

\* Texts a PDF at a path can hold.
Docs == { <<"s", "k", "y">>, <<"s", "e", "a", "s">> }
\* The program's path, which may or may not name a file, and one that names
\* none.
Paths == { PDF_PATH, "missing.pdf" }
\* A path names no file, a file pdf_extract cannot read, or a document.
Absent == <<"ABSENT">>
Corrupt == <<"CORRUPT">>
FileStates == {Absent, Corrupt} \cup Docs

\* Answers the completion service can give.
Answers == { <<"B", "l", "u", "e">>, <<"N", "o">> }

RECURSIVE TrimStart(_)
TrimStart(s) ==
  IF s # <<>> /\ Head(s) \in WhiteSpace THEN TrimStart(Tail(s)) ELSE s

RECURSIVE TrimEnd(_)
TrimEnd(s) ==
  IF s # <<>> /\ s[Len(s)] \in WhiteSpace
  THEN TrimEnd(SubSeq(s, 1, Len(s) - 1))
  ELSE s

\* trim_start() in place of trim().
Trim_StartOnly(s) == TrimStart(s)

\* str::trim(): strip leading and trailing whitespace.
Trim(s) == TrimEnd(TrimStart(s))

\* ------------------------------------------------------------- effects
\* One effect: the channel, the operation, its argument, and whether it
\* succeeded (for path_exists: the answer).
Ev(ch, ev, arg, ok) == [ch |-> ch, ev |-> ev, arg |-> arg, ok |-> ok]
Emit(e) == trace' = Append(trace, e)

\* main() returning Err(e): the runtime prints the error to stderr and the
\* process exits with status 1.
Fatal(events, msg) ==
  /\ trace' = trace \o events \o <<Ev("stderr", "fatal", msg, TRUE)>>
  /\ exitStatus' = 1
  /\ pc' = "exited"

\* --------------------------------------------------- embedding / index
RECURSIVE Count(_, _)
Count(s, c) ==
  IF s = <<>> THEN 0
  ELSE (IF Head(s) = c THEN 1 ELSE 0) + Count(Tail(s), c)

\* The embedding service: a fixed function from text to a vector.
Embed(t) == <<Len(t), Count(t, "e") + Count(t, "s")>>

Dot(u, v) == u[1] * v[1] + u[2] * v[2]

\* InMemoryVectorStore::from_documents over the builder's output for the
\* one document added.
FromDocuments(doc) == << [doc |-> doc, vec |-> Embed(doc)] >>

\* Best taking the latest of the equally scored entries.
Best_LastAmongEquals(store, v) ==
  CHOOSE i \in 1..Len(store) :
    /\ \A j \in 1..Len(store) : Dot(store[j].vec, v) <= Dot(store[i].vec, v)
    /\ \A j \in (i + 1)..Len(store) :
         Dot(store[j].vec, v) < Dot(store[i].vec, v)

\* Position of the best-scoring entry of a non-empty store, the earliest
\* among equals.
Best(store, v) ==
  CHOOSE i \in 1..Len(store) :
    /\ \A j \in 1..Len(store) : Dot(store[j].vec, v) <= Dot(store[i].vec, v)
    /\ \A j \in 1..(i - 1) : Dot(store[j].vec, v) < Dot(store[i].vec, v)

Without(store, i) ==
  SubSeq(store, 1, i - 1) \o SubSeq(store, i + 1, Len(store))

\* TopN stopping one entry late.
RECURSIVE TopN_OneMore(_, _, _)
TopN_OneMore(store, v, n) ==
  IF n < 0 \/ store = <<>> THEN <<>>
  ELSE LET i == Best(store, v)
       IN  <<store[i].doc>> \o TopN_OneMore(Without(store, i), v, n - 1)

\* The index's top-n lookup: up to n documents, best first.
RECURSIVE TopN(_, _, _)
TopN(store, v, n) ==
  IF n = 0 \/ store = <<>> THEN <<>>
  ELSE LET i == Best(store, v)
       IN  <<store[i].doc>> \o TopN(Without(store, i), v, n - 1)

\* Request carrying the previous turn's retrieved context along as history.
Request_WithHistory(a, ctx, q) ==
  [model |-> a.model, preamble |-> a.preamble,
   history |-> SelectSeq(trace, LAMBDA e : e.ev = "response"),
   context |-> ctx, prompt |-> q]

\* Request built without the dynamic context.
Request_NoContext(a, ctx, q) ==
  [model |-> a.model, preamble |-> a.preamble, history |-> <<>>,
   context |-> <<>>, prompt |-> q]

\* The request the agent sends to the completion model: preamble, the
\* retrieved documents and the prompt; prompt() passes no chat history.
Request(a, ctx, q) ==
  [model |-> a.model, preamble |-> a.preamble, history |-> <<>>,
   context |-> ctx, prompt |-> q]

\* The line println!("Perso: {}\n", response) writes, and the line
\* eprintln!("Error: {}\n", e) writes.
ResponseLine(r) == <<"Perso: ">> \o r
ErrorLine(e) == <<"Error: ">> \o e

NoAgent == [model |-> "", preamble |-> "", k |-> 0, index |-> <<>>]
NoResult == [ok |-> FALSE, val |-> <<>>]

\* ------------------------------------------------------------------ Init
Init ==
  /\ pc = "main"
  /\ fs \in {f \in [Paths -> FileStates] : f["missing.pdf"] = Absent}
  /\ content = NoText
  /\ vector_store = <<>>
  /\ agent = NoAgent
  /\ input = <<>>
  /\ query = <<>>
  /\ qvec = <<0, 0>>
  /\ context = <<>>
  /\ result = NoResult
  /\ trace = <<>>
  /\ reads = 0
  /\ exitStatus = -1

\* --------------------------------------------------------------- startup
\* main, step 1: create_ollama_client()?; on success println "Reading".
CreateClient ==
  /\ pc = "main"
  /\ \E ok \in BOOLEAN :
       IF ok
       THEN /\ trace' = trace \o <<Ev("svc", "create_client", <<>>, TRUE),
                                    Ev("stdout", "reading", PDF_PATH, TRUE)>>
            /\ pc' = "load"
            /\ UNCHANGED exitStatus
       ELSE Fatal(<<Ev("svc", "create_client", <<>>, FALSE)>>,
                  <<"Failed to create Ollama client">>)
  /\ UNCHANGED <<fs, content, vector_store, agent, input, query, qvec,
                 context, result, reads>>

\* load_pdf_content without the exists() test: a missing file reaches the
\* extractor and is reported as an extraction failure.
load_pdf_content_NoExistsCheck(path, f) ==
  IF f[path] \in {Absent, Corrupt}
  THEN [ok |-> FALSE, text |-> NoText,
        err |-> <<"Failed to extract text from PDF">>,
        calls |-> <<Ev("svc", "extract_text", path, FALSE)>>]
  ELSE [ok |-> TRUE, text |-> f[path], err |-> <<>>,
        calls |-> <<Ev("svc", "extract_text", path, TRUE)>>]

\* load_pdf_content(path) on the file system f: the result, and the calls
\* it made (Path::exists, then pdf_extract::extract_text).
load_pdf_content(path, f) ==
  IF f[path] = Absent
  THEN [ok |-> FALSE, text |-> NoText,
        err |-> <<"File not found", path>>,
        calls |-> <<Ev("svc", "path_exists", path, FALSE)>>]
  ELSE IF f[path] = Corrupt
  THEN [ok |-> FALSE, text |-> NoText,
        err |-> <<"Failed to extract text from PDF">>,
        calls |-> <<Ev("svc", "path_exists", path, TRUE),
                    Ev("svc", "extract_text", path, FALSE)>>]
  ELSE [ok |-> TRUE, text |-> f[path], err |-> <<>>,
        calls |-> <<Ev("svc", "path_exists", path, TRUE),
                    Ev("svc", "extract_text", path, TRUE)>>]

\* LoadPdf that goes on with an empty text when the load fails.
LoadPdf_Lenient ==
  /\ pc = "load"
  /\ LET r == load_pdf_content(PDF_PATH, fs)
     IN  /\ content' = r.text
         /\ trace' = trace \o r.calls
                           \o <<Ev("stdout", "creating", <<>>, TRUE)>>
         /\ pc' = "embed"
  /\ UNCHANGED <<fs, vector_store, agent, input, query, qvec, context,
                 result, reads, exitStatus>>

\* main, step 2: load_pdf_content(PDF_PATH)?; on success println "Creating
\* embeddings".
LoadPdf ==
  /\ pc = "load"
  /\ LET r == load_pdf_content(PDF_PATH, fs)
     IN  IF r.ok
         THEN /\ content' = r.text
              /\ trace' = trace \o r.calls
                                \o <<Ev("stdout", "creating", <<>>, TRUE)>>
              /\ pc' = "embed"
              /\ UNCHANGED exitStatus
         ELSE /\ Fatal(r.calls, r.err)
              /\ UNCHANGED content
  /\ UNCHANGED <<fs, vector_store, agent, input, query, qvec, context,
                 result, reads>>

\* build_vector_store that swallows a failed embedding build and goes on
\* with an empty store.
build_vector_store_Lenient ==
  /\ pc = "embed"
  /\ \E ok \in BOOLEAN :
       /\ vector_store' = IF ok THEN FromDocuments(content) ELSE <<>>
       /\ trace' = trace \o
              <<Ev("svc", "add_document", content, TRUE),
                Ev("svc", "embed_document", content, ok)>>
  /\ pc' = "agent"
  /\ UNCHANGED <<fs, content, agent, input, query, qvec, context, result,
                 reads, exitStatus>>

\* main, step 3: build_vector_store(content, &embedding_model).await?
build_vector_store ==
  /\ pc = "embed"
  /\ \E outcome \in {"ok", "document", "build"} :
       CASE outcome = "ok" ->
              /\ vector_store' = FromDocuments(content)
              /\ trace' = trace \o
                     <<Ev("svc", "add_document", content, TRUE),
                       Ev("svc", "embed_document", content, TRUE)>>
              /\ pc' = "agent"
              /\ UNCHANGED exitStatus
         [] outcome = "document" ->
              /\ Fatal(<<Ev("svc", "add_document", content, FALSE)>>,
                       <<"Failed to create document embedding">>)
              /\ UNCHANGED vector_store
         [] outcome = "build" ->
              /\ Fatal(<<Ev("svc", "add_document", content, TRUE),
                         Ev("svc", "embed_document", content, FALSE)>>,
                       <<"Failed to build embeddings">>)
              /\ UNCHANGED vector_store
  /\ UNCHANGED <<fs, content, agent, input, query, qvec, context, result,
                 reads>>

\* BuildAgent with the earlier sample count of 2 for the dynamic context.
BuildAgent_TopK2 ==
  /\ pc = "agent"
  /\ agent' = [model |-> LLM_MODEL, preamble |-> PREAMBLE,
               k |-> 2, index |-> vector_store]
  /\ pc' = "banner"
  /\ UNCHANGED <<fs, content, vector_store, input, query, qvec, context,
                 result, trace, reads, exitStatus>>

\* main, step 4: client.agent(LLM_MODEL).preamble(..)
\*   .dynamic_context(TOP_K_RESULTS, vector_store.index(embedding_model))
BuildAgent ==
  /\ pc = "agent"
  /\ agent' = [model |-> LLM_MODEL, preamble |-> PREAMBLE,
               k |-> TOP_K_RESULTS, index |-> vector_store]
  /\ pc' = "banner"
  /\ UNCHANGED <<fs, content, vector_store, input, query, qvec, context,
                 result, trace, reads, exitStatus>>

\* run_chat_loop entry: the ready banner.
Banner ==
  /\ pc = "banner"
  /\ Emit(Ev("stdout", "ready", <<>>, TRUE))
  /\ pc' = "prompt"
  /\ UNCHANGED <<fs, content, vector_store, agent, input, query, qvec,
                 context, result, reads, exitStatus>>

\* ------------------------------------------------------------ chat loop
\* Loop head: print!("You: "); stdout.flush()?
Prompt ==
  /\ pc = "prompt"
  /\ \E ok \in BOOLEAN :
       IF ok
       THEN /\ Emit(Ev("stdout", "prompt", <<>>, TRUE))
            /\ pc' = "read"
            /\ UNCHANGED exitStatus
       ELSE Fatal(<<Ev("stdout", "prompt", <<>>, FALSE)>>,
                  <<"flush failed">>)
  /\ UNCHANGED <<fs, content, vector_store, agent, input, query, qvec,
                 context, result, reads>>

\* ReadLine that takes a failed read for an empty line and goes on.
ReadLine_ErrorAsEmpty ==
  /\ pc = "read"
  /\ reads < MaxReads
  /\ reads' = reads + 1
  /\ \/ \E line \in Lines :
          /\ input' = line
          /\ Emit(Ev("stdin", "read_line", line, TRUE))
     \/ /\ input' = <<>>
        /\ Emit(Ev("stdin", "read_line", <<>>, FALSE))
  /\ pc' = "match"
  /\ UNCHANGED <<fs, content, vector_store, agent, query, qvec, context,
                 result, exitStatus>>

\* stdin has reached its end: a read_line has returned Ok(0).
AtEof ==
  \E i \in 1..Len(trace) :
    trace[i].ev = "read_line" /\ trace[i].ok /\ trace[i].arg = <<>>

\* let mut input = String::new(); stdin.read_line(&mut input).context(..)?
\* Ok(0) at end of input leaves the buffer empty, and so does every read
\* after it.
ReadLine ==
  /\ pc = "read"
  /\ reads < MaxReads
  /\ reads' = reads + 1
  /\ \/ \E line \in Lines :
          /\ AtEof => line = <<>>
          /\ input' = line
          /\ Emit(Ev("stdin", "read_line", line, TRUE))
          /\ pc' = "match"
          /\ UNCHANGED exitStatus
     \/ /\ Fatal(<<Ev("stdin", "read_line", <<>>, FALSE)>>,
                 <<"Failed to read user input">>)
        /\ UNCHANGED input
  /\ UNCHANGED <<fs, content, vector_store, agent, query, qvec, context,
                 result>>

\* MatchArm comparing the commands without regard to case.
MatchArm_IgnoreCase(q) ==
  IF q \in {EXIT, QUIT, <<"E", "x", "i", "t">>, <<"Q", "U", "I", "T">>}
  THEN "quit"
  ELSE IF q = <<>> THEN "continue"
  ELSE "respond"

\* MatchArm without the arm for the empty string.
MatchArm_NoEmptyArm(q) ==
  IF q = EXIT \/ q = QUIT THEN "quit" ELSE "respond"

\* The arm of `match query` that input.trim() selects.
MatchArm(q) ==
  IF q = EXIT \/ q = QUIT THEN "quit"
  ELSE IF q = <<>> THEN "continue"
  ELSE "respond"

\* Match whose exit arm lacks the `break`.
Match_NoBreak ==
  /\ pc = "match"
  /\ LET q == Trim(input)
         arm == MatchArm(q)
     IN  /\ query' = q
         /\ CASE arm = "quit" ->
                   /\ Emit(Ev("stdout", "goodbye", <<>>, TRUE))
                   /\ pc' = "prompt"
              [] arm = "continue" ->
                   /\ pc' = "prompt"
                   /\ UNCHANGED trace
              [] arm = "respond" ->
                   /\ Emit(Ev("stdout", "thinking", <<>>, TRUE))
                   /\ pc' = "call"
  /\ UNCHANGED <<fs, content, vector_store, agent, input, qvec, context,
                 result, reads, exitStatus>>

\* Match leaving the loop when read_line read nothing.
Match_EofBreaks ==
  /\ pc = "match"
  /\ LET q == Trim(input)
         arm == MatchArm(q)
     IN  /\ query' = q
         /\ CASE arm = "quit" ->
                   /\ Emit(Ev("stdout", "goodbye", <<>>, TRUE))
                   /\ pc' = "terminated"
              [] arm = "continue" ->
                   /\ pc' = IF input = <<>> THEN "terminated" ELSE "prompt"
                   /\ UNCHANGED trace
              [] arm = "respond" ->
                   /\ Emit(Ev("stdout", "thinking", <<>>, TRUE))
                   /\ pc' = "call"
  /\ UNCHANGED <<fs, content, vector_store, agent, input, qvec, context,
                 result, reads, exitStatus>>

\* let query = input.trim(); match query { .. }
Match ==
  /\ pc = "match"
  /\ LET q == Trim(input)
         arm == MatchArm(q)
     IN  /\ query' = q
         /\ CASE arm = "quit" ->
                   /\ Emit(Ev("stdout", "goodbye", <<>>, TRUE))
                   /\ pc' = "terminated"
              [] arm = "continue" ->
                   /\ pc' = "prompt"
                   /\ UNCHANGED trace
              [] arm = "respond" ->
                   /\ Emit(Ev("stdout", "thinking", <<>>, TRUE))
                   /\ pc' = "call"
  /\ UNCHANGED <<fs, content, vector_store, agent, input, qvec, context,
                 result, reads, exitStatus>>

\* AgentPrompt started as a detached task: the loop goes on without
\* awaiting the call.
AgentPrompt_Detached ==
  /\ pc = "call"
  /\ Emit(Ev("svc", "agent_prompt", query, TRUE))
  /\ pc' = "prompt"
  /\ UNCHANGED <<fs, content, vector_store, agent, input, query, qvec,
                 context, result, reads, exitStatus>>

\* agent.prompt(query).await, the call.
AgentPrompt ==
  /\ pc = "call"
  /\ Emit(Ev("svc", "agent_prompt", query, TRUE))
  /\ pc' = "embed_query"
  /\ UNCHANGED <<fs, content, vector_store, agent, input, query, qvec,
                 context, result, reads, exitStatus>>

\* Inside the call: the dynamic context embeds the prompt text; a failure
\* of the embedding service ends the call with an error.
AgentEmbedQuery ==
  /\ pc = "embed_query"
  /\ \E ok \in BOOLEAN :
       /\ Emit(Ev("svc", "embed_query", query, ok))
       /\ IF ok
          THEN /\ qvec' = Embed(query)
               /\ pc' = "retrieve"
               /\ UNCHANGED result
          ELSE /\ result' = [ok |-> FALSE, val |-> <<"embedding failed">>]
               /\ pc' = "print"
               /\ UNCHANGED qvec
  /\ UNCHANGED <<fs, content, vector_store, agent, input, query, context,
                 reads, exitStatus>>

\* AgentRetrieve that also stores the query in the index.
AgentRetrieve_Inserting ==
  /\ pc = "retrieve"
  /\ context' = TopN(agent.index, qvec, agent.k)
  /\ Emit(Ev("svc", "top_n", [k |-> agent.k, index |-> agent.index,
                              vec |-> qvec], TRUE))
  /\ agent' = [agent EXCEPT
                 !.index = Append(@, [doc |-> query, vec |-> qvec])]
  /\ pc' = "complete"
  /\ UNCHANGED <<fs, content, vector_store, input, query, qvec,
                 result, reads, exitStatus>>

\* Inside the call: the k best documents of the index for the query vector.
AgentRetrieve ==
  /\ pc = "retrieve"
  /\ context' = TopN(agent.index, qvec, agent.k)
  /\ Emit(Ev("svc", "top_n", [k |-> agent.k, index |-> agent.index,
                              vec |-> qvec], TRUE))
  /\ pc' = "complete"
  /\ UNCHANGED <<fs, content, vector_store, agent, input, query, qvec,
                 result, reads, exitStatus>>

\* Inside the call: the completion request; the service answers or fails.
AgentComplete ==
  /\ pc = "complete"
  /\ \/ \E a \in Answers :
          /\ result' = [ok |-> TRUE, val |-> a]
          /\ Emit(Ev("svc", "completion", Request(agent, context, query),
                     TRUE))
     \/ /\ result' = [ok |-> FALSE, val |-> <<"completion failed">>]
        /\ Emit(Ev("svc", "completion", Request(agent, context, query),
                   FALSE))
  /\ pc' = "print"
  /\ UNCHANGED <<fs, content, vector_store, agent, input, query, qvec,
                 context, reads, exitStatus>>

\* PrintResult with the call's error propagated by `?` instead of printed.
PrintResult_Propagate ==
  /\ pc = "print"
  /\ IF result.ok
     THEN /\ Emit(Ev("stdout", "response", ResponseLine(result.val), TRUE))
          /\ pc' = "prompt"
          /\ UNCHANGED exitStatus
     ELSE Fatal(<<>>, result.val)
  /\ result' = NoResult
  /\ context' = <<>>
  /\ UNCHANGED <<fs, content, vector_store, agent, input, query, qvec,
                 reads>>

\* PrintResult that goes on to read without a new prompt (the prompt
\* printed once, outside the loop).
PrintResult_NoReprompt ==
  /\ pc = "print"
  /\ IF result.ok
     THEN Emit(Ev("stdout", "response", ResponseLine(result.val), TRUE))
     ELSE Emit(Ev("stderr", "turn_error", ErrorLine(result.val), TRUE))
  /\ pc' = "read"
  /\ result' = NoResult
  /\ context' = <<>>
  /\ UNCHANGED <<fs, content, vector_store, agent, input, query, qvec,
                 reads, exitStatus>>

\* match agent.prompt(query).await { Ok(response) => println!, Err(e) =>
\* eprintln! }, then the next iteration.
PrintResult ==
  /\ pc = "print"
  /\ IF result.ok
     THEN Emit(Ev("stdout", "response", ResponseLine(result.val), TRUE))
     ELSE Emit(Ev("stderr", "turn_error", ErrorLine(result.val), TRUE))
  /\ pc' = "prompt"
  /\ result' = NoResult
  /\ context' = <<>>
  /\ UNCHANGED <<fs, content, vector_store, agent, input, query, qvec,
                 reads, exitStatus>>

\* break; Ok(()) from run_chat_loop and from main: exit status 0.
MainReturn ==
  /\ pc = "terminated"
  /\ exitStatus' = 0
  /\ pc' = "exited"
  /\ UNCHANGED <<fs, content, vector_store, agent, input, query, qvec,
                 context, result, trace, reads>>

Next ==
  \/ CreateClient
  \/ LoadPdf
  \/ build_vector_store
  \/ BuildAgent
  \/ Banner
  \/ Prompt
  \/ ReadLine
  \/ Match
  \/ AgentPrompt
  \/ AgentEmbedQuery
  \/ AgentRetrieve
  \/ AgentComplete
  \/ PrintResult
  \/ MainReturn

Spec == Init /\ [][Next]_vars

\* ------------------------------------------------ the index on its own
\* Vectors of one length, so that the dot product ranks as the cosine does.
UnitVecs == { <<5, 0>>, <<4, 3>>, <<3, 4>>, <<0, 5>> }
DocNames == <<"d1", "d2", "d3", "d4", "d5", "d6">>

\* build(entries): the index holding the entries in insertion order.
BuildIndex(vecs) ==
  [i \in 1..Len(vecs) |-> [doc |-> <<DocNames[i]>>, vec |-> vecs[i]]]

\* Indexes of zero to MaxStore entries, and the program's one-document
\* indexes.
Stores ==
  {BuildIndex(f) : f \in UNION {[1..n -> UnitVecs] : n \in 0..MaxStore}}
    \cup {FromDocuments(d) : d \in Docs}

InitIndex ==
  /\ pc = "index"
  /\ vector_store \in Stores
  /\ fs = [p \in Paths |-> Absent]
  /\ content = NoText
  /\ agent = NoAgent
  /\ input = <<>>
  /\ query = <<>>
  /\ qvec = <<0, 0>>
  /\ context = <<>>
  /\ result = NoResult
  /\ trace = <<>>
  /\ reads = 0
  /\ exitStatus = -1

\* query(v, k) on the index.
IndexQuery ==
  /\ pc = "index"
  /\ \E v \in UnitVecs, k \in 0..MaxK :
       /\ agent' = [NoAgent EXCEPT !.k = k, !.index = vector_store]
       /\ qvec' = v
       /\ context' = TopN(vector_store, v, k)
  /\ pc' = "queried"
  /\ UNCHANGED <<fs, content, vector_store, input, query, result, trace,
                 reads, exitStatus>>

SpecIndex == InitIndex /\ [][IndexQuery]_vars

\* ------------------------------------------------- stdout write failures
\* A panic: the message goes to stderr and the process exits with status
\* 101, without main() returning.
Panic(events, msg) ==
  /\ trace' = trace \o events \o <<Ev("stderr", "panic", msg, TRUE)>>
  /\ exitStatus' = 101
  /\ pc' = "exited"

\* println! panics when the write to stdout fails (a closed pipe): at each
\* println! of main() and run_chat_loop(), the write failing.
PrintlnPanic ==
  /\ \/ /\ pc = "main"
        /\ Panic(<<Ev("svc", "create_client", <<>>, TRUE),
                   Ev("stdout", "reading", PDF_PATH, FALSE)>>,
                 <<"failed printing to stdout">>)
     \/ /\ pc = "load"
        /\ load_pdf_content(PDF_PATH, fs).ok
        /\ Panic(load_pdf_content(PDF_PATH, fs).calls
                   \o <<Ev("stdout", "creating", <<>>, FALSE)>>,
                 <<"failed printing to stdout">>)
     \/ /\ pc = "banner"
        /\ Panic(<<Ev("stdout", "ready", <<>>, FALSE)>>,
                 <<"failed printing to stdout">>)
     \/ /\ pc = "match"
        /\ MatchArm(Trim(input)) # "continue"
        /\ Panic(<<Ev("stdout",
                      IF MatchArm(Trim(input)) = "quit" THEN "goodbye"
                      ELSE "thinking", <<>>, FALSE)>>,
                 <<"failed printing to stdout">>)
     \/ /\ pc = "print"
        /\ result.ok
        /\ Panic(<<Ev("stdout", "response", ResponseLine(result.val),
                      FALSE)>>,
                 <<"failed printing to stdout">>)
  /\ UNCHANGED <<fs, content, vector_store, agent, input, query, qvec,
                 context, result, reads>>

NextIO ==
  \/ Next
  \/ PrintlnPanic

\* The program with stdout writes that can fail.
SpecIO == Init /\ [][NextIO]_vars

\* ================================================================ claims
\* States of the orchestrator's state machine, as positions in the code.
Initializing == pc \in {"main", "load", "embed", "agent"}
AwaitingInput == pc \in {"prompt", "read", "match"}
Responding == pc \in {"call", "embed_query", "retrieve", "complete", "print"}
Terminated == pc = "terminated"

\* Effects that belong to the chat loop.
LoopEvents ==
  {"ready", "prompt", "read_line", "thinking", "goodbye", "agent_prompt",
   "embed_query", "top_n", "completion", "response", "turn_error"}
\* Fallible operations of the startup phase.
InitOps == {"create_client", "path_exists", "extract_text", "add_document",
            "embed_document"}

\* line is core with only whitespace before and after it.
Padded(line, core) ==
  \E i \in 0..Len(line) :
    /\ i + Len(core) <= Len(line)
    /\ \A m \in 1..i : line[m] \in WhiteSpace
    /\ \A m \in 1..Len(core) : line[i + m] = core[m]
    /\ \A m \in (i + Len(core) + 1)..Len(line) : line[m] \in WhiteSpace
Blank(line) == \A m \in 1..Len(line) : line[m] \in WhiteSpace
IsCommand(line) == Padded(line, EXIT) \/ Padded(line, QUIT)

Last(s) == s[Len(s)]
HasEvent(name) == \E i \in 1..Len(trace) : trace[i].ev = name

\* C1: for every line read, the loop moves to Terminated iff the trimmed
\* line is exactly "exit" or "quit" (case-sensitive); any other non-blank
\* line moves to Responding; a blank line stays in AwaitingInput.
C1_InputTransitions ==
  [][pc = "match" =>
       /\ (pc' = "terminated") <=> IsCommand(input)
       /\ (pc' = "call") <=> (~IsCommand(input) /\ ~Blank(input))
       /\ (pc' = "prompt") <=> Blank(input)]_vars

\* C1 witness: "Exit" (capitalised) has been read and the loop is Responding.
C1_Witness ==
  /\ pc = "call"
  /\ input = <<"E", "x", "i", "t", NL>>

\* C2: a turn whose agent call returned an error prints the error to
\* stderr and goes back to prompting with the process still running and the
\* agent as built; the error came from the query embedding or from the
\* completion service.
C2_TurnErrorNotFatal ==
  [][(pc = "print" /\ ~result.ok) =>
       /\ pc' = "prompt"
       /\ exitStatus' = -1
       /\ trace' = Append(trace, Ev("stderr", "turn_error",
                                    <<"Error: ">> \o result.val, TRUE))
       /\ agent' = agent
       /\ agent.index = FromDocuments(fs[PDF_PATH])
       /\ Last(trace).ev \in {"embed_query", "completion"}
       /\ ~Last(trace).ok]_vars

\* C2 witness: a turn error was printed and a later turn's completion call
\* succeeded and its answer was printed.
C2_Witness ==
  \E i, j, m \in 1..Len(trace) :
    /\ i < j /\ j < m
    /\ trace[i].ev = "turn_error" /\ trace[i].ch = "stderr"
    /\ trace[j].ev = "completion" /\ trace[j].ok
    /\ trace[m].ev = "response" /\ Tail(trace[m].arg) \in Answers

\* C3: a failed startup operation is immediately followed by the fatal
\* message and exit status 1, and the execution has no effect of the chat
\* loop (no banner, prompt, read or agent call).
C3_StartupFailureFatal ==
  \A i \in 1..Len(trace) :
    (trace[i].ev \in InitOps /\ ~trace[i].ok) =>
      /\ Len(trace) = i + 1
      /\ trace[i + 1].ch = "stderr"
      /\ trace[i + 1].ev = "fatal"
      /\ trace[i + 1].arg # <<>>
      /\ pc = "exited"
      /\ exitStatus = 1
      /\ \A j \in 1..Len(trace) : trace[j].ev \notin LoopEvents

\* C3 witness: the embedding build failed and the process has exited.
C3_Witness ==
  /\ pc = "exited"
  /\ \E i \in 1..Len(trace) :
       trace[i].ev = "embed_document" /\ ~trace[i].ok

InSeq(x, s) == \E i \in 1..Len(s) : s[i] = x

\* C4: load_pdf_content(path): a missing file gives the not-found error
\* naming the path, without calling the extractor; an unreadable file gives
\* a different, extraction error; success returns the whole text; a failure
\* returns no text.  main() holds the whole text once the load has passed.
C4_LoadPdfContent ==
  /\ \A p \in Paths :
       LET r == load_pdf_content(p, fs)
           extracted == \E i \in 1..Len(r.calls) :
                          r.calls[i].ev = "extract_text"
       IN  /\ fs[p] = Absent =>
                /\ ~r.ok
                /\ r.err[1] = "File not found"
                /\ InSeq(p, r.err)
                /\ ~extracted
           /\ fs[p] = Corrupt =>
                /\ ~r.ok
                /\ r.err[1] # "File not found"
                /\ extracted
           /\ fs[p] \in Docs => (r.ok /\ r.text = fs[p])
           /\ ~r.ok => r.text = NoText
  /\ pc \in {"embed", "agent", "banner"} => content = fs[PDF_PATH]
  /\ (HasEvent("path_exists") /\ fs[PDF_PATH] = Absent) =>
       /\ Last(trace) = Ev("stderr", "fatal", <<"File not found", PDF_PATH>>,
                           TRUE)
       /\ ~HasEvent("extract_text")

\* C4 witness: knowledge.pdf is missing and main() has failed on it.
C4_Witness ==
  /\ fs[PDF_PATH] = Absent
  /\ pc = "exited"
  /\ HasEvent("path_exists")

\* C5: a blank line is a no-op: the match step changes nothing but the
\* position, which goes back to the loop head, and the loop head's next
\* effect is the prompt.
C5_BlankLineNoOp ==
  /\ [][(pc = "match" /\ Blank(input)) =>
          /\ pc' = "prompt"
          /\ UNCHANGED <<fs, content, vector_store, agent, input, qvec,
                         context, result, trace, reads, exitStatus>>]_vars
  /\ [][pc = "prompt" =>
          /\ Len(trace') > Len(trace)
          /\ trace'[Len(trace) + 1].ev = "prompt"
          /\ trace'[Len(trace) + 1].ok => pc' = "read"]_vars

\* C5 witness: a whitespace-only line was read and the loop is back at its
\* head with that read as the last effect.
C5_Witness ==
  /\ pc = "prompt"
  /\ input = <<SP, TAB, NL>>
  /\ Last(trace).ev = "read_line"

Positions(name) == {i \in 1..Len(trace) : trace[i].ev = name}
Printed(i) == trace[i].ev \in {"response", "turn_error"}

\* C6: the farewell is printed at most once and is the last effect of the
\* process, which then exits with status 0; status 0 arises only after the
\* farewell, which is printed only for an exit/quit line; a process that
\* exits without having become ready exits with a non-zero status.
C6_FarewellAndExitStatus ==
  /\ Cardinality(Positions("goodbye")) <= 1
  /\ \A i \in Positions("goodbye") :
       /\ i = Len(trace)
       /\ trace[i].ch = "stdout"
       /\ trace[i - 1].ev = "read_line"
       /\ IsCommand(trace[i - 1].arg)
       /\ pc \in {"terminated", "exited"}
       /\ pc = "exited" => exitStatus = 0
  /\ pc = "terminated" => (HasEvent("goodbye") /\ exitStatus = -1)
  /\ exitStatus = 0 => (pc = "exited" /\ HasEvent("goodbye"))
  /\ (pc = "exited" /\ ~HasEvent("ready")) => exitStatus > 0
  /\ pc # "exited" => exitStatus = -1

\* C6 witness: the process has exited with status 0 after a "quit" line.
C6_Witness ==
  /\ pc = "exited"
  /\ exitStatus = 0
  /\ input = <<SP, "q", "u", "i", "t", CR, NL>>

\* C7: every entry into Responding is one pass, in order: the agent call,
\* the query embedding, the top-k lookup with k = 3 on the index, the
\* completion request with the retrieved context and the query, and one
\* print (the answer on stdout, or the error on stderr), after which the
\* loop is at its head again; an embedding failure ends the pass with the
\* error print.
C7_OnePassPerTurn ==
  /\ [](\A i \in 1..Len(trace) :
          LET at(n) == trace[i + n]
              has(n) == i + n <= Len(trace)
          IN  /\ trace[i].ev = "thinking" =>
                   (has(1) => at(1).ev = "agent_prompt")
              /\ trace[i].ev = "agent_prompt" =>
                   /\ trace[i - 1].ev = "thinking"
                   /\ has(1) => /\ at(1).ev = "embed_query"
                                /\ at(1).arg = trace[i].arg
              /\ trace[i].ev = "embed_query" =>
                   /\ trace[i - 1].ev = "agent_prompt"
                   /\ has(1) => at(1).ev = (IF trace[i].ok THEN "top_n"
                                            ELSE "turn_error")
              /\ trace[i].ev = "top_n" =>
                   /\ trace[i - 1].ev = "embed_query"
                   /\ trace[i].arg.k = 3
                   /\ trace[i].arg.index = FromDocuments(fs[PDF_PATH])
                   /\ has(1) =>
                        /\ at(1).ev = "completion"
                        /\ at(1).arg.prompt = trace[i - 1].arg
                        /\ at(1).arg.context =
                             TopN(trace[i].arg.index, trace[i].arg.vec, 3)
              /\ trace[i].ev = "completion" =>
                   /\ trace[i - 1].ev = "top_n"
                   /\ has(1) => at(1).ev = (IF trace[i].ok THEN "response"
                                            ELSE "turn_error")
              /\ trace[i].ev = "response" =>
                   /\ trace[i].ch = "stdout"
                   /\ trace[i - 1].ev = "completion"
                   /\ has(1) => at(1).ev = "prompt"
              /\ trace[i].ev = "turn_error" =>
                   /\ trace[i].ch = "stderr"
                   /\ trace[i - 1].ev \in {"embed_query", "completion"}
                   /\ has(1) => at(1).ev = "prompt")
  /\ [](Responding <=>
          (\E i \in Positions("thinking") :
             \A j \in (i + 1)..Len(trace) : ~Printed(j)))
  /\ [](Responding => ENABLED Next)
  /\ [][pc = "print" =>
          /\ pc' = "prompt"
          /\ Len(trace') = Len(trace) + 1
          /\ trace'[Len(trace')].ev \in {"response", "turn_error"}]_vars

\* C7 witness: a whole pass has run and its answer was printed.
C7_Witness ==
  /\ pc = "prompt"
  /\ Len(trace) > 5
  /\ Last(trace).ev = "response"
  /\ trace[Len(trace) - 2].ev = "top_n"
  /\ trace[Len(trace) - 3].ev = "embed_query"

\* The query of the turn that effect j belongs to: the trimmed line of the
\* last read before it.
TurnLine(j) ==
  LET r == CHOOSE r \in Positions("read_line") :
             /\ r < j
             /\ \A m \in Positions("read_line") : m < j => m <= r
  IN  trace[r].arg

\* C8: what a turn hands to retrieval and to the completion service is a
\* function of that turn's query and of the index built at startup alone:
\* no chat history, and the context looked up for this query.
C8_NoTurnToTurnState ==
  LET built == FromDocuments(fs[PDF_PATH])
  IN  /\ \A j \in Positions("top_n") :
           LET q == Trim(TurnLine(j))
           IN  trace[j].arg = [k |-> TOP_K_RESULTS, index |-> built,
                               vec |-> Embed(q)]
      /\ \A j \in Positions("completion") :
           LET q == Trim(TurnLine(j))
           IN  trace[j].arg =
                 [model |-> LLM_MODEL, preamble |-> PREAMBLE,
                  history |-> <<>>,
                  context |-> TopN(built, Embed(q), TOP_K_RESULTS),
                  prompt |-> q]

\* C8 witness: the same query was sent to the completion service in two
\* turns, the second one after the first one's answer.
C8_Witness ==
  \E i, j \in Positions("completion") :
    /\ i < j
    /\ trace[i].arg.prompt = trace[j].arg.prompt
    /\ trace[i + 1].ev = "response"

\* The first state of Ready and everything after it.
ReadyOnward ==
  \/ pc \in {"banner", "terminated"}
  \/ AwaitingInput
  \/ Responding
  \/ (pc = "exited" /\ HasEvent("ready"))

\* C9: the store is written once, by build_vector_store during startup,
\* the agent once, when it is built from it; from Ready onward the index
\* holds exactly the entries of the build.
C9_IndexBuiltOnce ==
  /\ [][vector_store' # vector_store =>
          (pc = "embed" /\ vector_store = <<>>)]_vars
  /\ [][agent' # agent => (pc = "agent" /\ agent = NoAgent)]_vars
  /\ [](Cardinality(Positions("embed_document")) <= 1)
  /\ [](ReadyOnward =>
          /\ agent.index = FromDocuments(fs[PDF_PATH])
          /\ vector_store = agent.index
          /\ Len(agent.index) = 1)

\* C9 witness: after a failed and a successful query the index is the one
\* that was built.
C9_Witness ==
  /\ pc = "prompt"
  /\ HasEvent("turn_error")
  /\ HasEvent("response")
  /\ agent.index = FromDocuments(content)

\* C10: between the start of an agent call and the print of its answer or
\* error there is no prompt, no read and no other agent call; while
\* Responding the last call is still without its print or is being printed.
C10_OneOutstandingQuery ==
  /\ \A i \in Positions("agent_prompt") :
       \A j \in (i + 1)..Len(trace) :
         trace[j].ev \in {"prompt", "read_line", "agent_prompt"} =>
           \E m \in (i + 1)..(j - 1) : Printed(m)
  /\ \A i \in Positions("agent_prompt") :
       (\A m \in (i + 1)..Len(trace) : ~Printed(m)) => Responding

\* C10 witness: a second query is in flight after the first was answered.
C10_Witness ==
  /\ pc = "complete"
  /\ HasEvent("response")

\* C11: every read of stdin directly follows one successful prompt write
\* on stdout, with one prompt for each read (as many prompts between two
\* reads as there are reads after the first up to the second); answers go
\* to stdout behind the response prefix and turn errors go to stderr.
C11_PromptBeforeRead ==
  /\ \A i \in Positions("read_line") :
       /\ i > 1
       /\ trace[i - 1].ev = "prompt"
       /\ trace[i - 1].ch = "stdout"
       /\ trace[i - 1].ok
  /\ \A i, j \in Positions("read_line") :
       i < j =>
         Cardinality({m \in Positions("prompt") : i < m /\ m < j})
           = Cardinality({m \in Positions("read_line") : i < m /\ m <= j})
  /\ \A i \in Positions("prompt") : trace[i].ch = "stdout"
  /\ \A i \in Positions("response") :
       /\ trace[i].ch = "stdout"
       /\ Head(trace[i].arg) = "Perso: "
       /\ Tail(trace[i].arg) \in Answers
  /\ \A i \in Positions("turn_error") : trace[i].ch = "stderr"
  /\ pc = "read" => Last(trace).ev = "prompt"

\* C11 witness: a second line has been read after a printed answer.
C11_Witness ==
  /\ pc = "match"
  /\ reads = 2
  /\ HasEvent("response")

\* A fallible operation that failed: a service call, a stdout write or a
\* stdin read with a failure result (path_exists answering "no" included).
Failed(i) == trace[i].ch # "stderr" /\ ~trace[i].ok
Message(i) == trace[i].ch = "stderr"

\* C12: every failed operation is followed by a message to the user (or the
\* message is the pending print of the turn's error), and the process ends
\* only by main() returning: Ok (status 0) or the error that was reported
\* (status 1), never by an abort.
C12_NoSilentFailureNoAbort ==
  /\ \A i \in 1..Len(trace) :
       Failed(i) =>
         \/ \E j \in (i + 1)..Len(trace) : Message(j)
         \/ (pc = "print" /\ ~result.ok /\ i = Len(trace))
  /\ pc = "exited" =>
       \/ exitStatus = 0
       \/ (exitStatus = 1 /\ Last(trace).ev = "fatal")

\* C13: with the index built from the one document text T, every lookup
\* yields exactly <<T>>, every completion request carries T as its context
\* together with the turn's query, and what is printed for a successful
\* call is the service's answer behind the response prefix.
C13_EndToEnd ==
  /\ [](\A j \in Positions("top_n") :
          TopN(trace[j].arg.index, trace[j].arg.vec, trace[j].arg.k)
            = <<fs[PDF_PATH]>>)
  /\ [](pc = "complete" => context = <<fs[PDF_PATH]>>)
  /\ [](\A j \in Positions("completion") :
          /\ trace[j].arg.context = <<fs[PDF_PATH]>>
          /\ trace[j].arg.prompt = Trim(TurnLine(j))
          /\ trace[j].arg.prompt # <<>>)
  /\ []((pc = "print" /\ result.ok) =>
          (result.val \in Answers /\ Last(trace).ev = "completion"))
  /\ [][(pc = "print" /\ result.ok) =>
          trace' = Append(trace, Ev("stdout", "response",
                                    <<"Perso: ">> \o result.val, TRUE))]_vars

\* C13 witness: document "sky", query "hi", answer "Blue" printed.
C13_Witness ==
  /\ pc = "prompt"
  /\ fs[PDF_PATH] = <<"s", "k", "y">>
  /\ Last(trace).ev = "response"
  /\ Last(trace).arg = <<"Perso: ", "B", "l", "u", "e">>
  /\ trace[Len(trace) - 1].arg.context = << <<"s", "k", "y">> >>
  /\ trace[Len(trace) - 1].arg.prompt = <<"h", "i">>

Min(a, b) == IF a < b THEN a ELSE b
StoreDocs == {vector_store[i].doc : i \in 1..Len(vector_store)}
\* Where a returned document sits in the index, and its score for qvec.
PosOf(d) == CHOOSE i \in 1..Len(vector_store) : vector_store[i].doc = d
ScoreOf(d) == Dot(vector_store[PosOf(d)].vec, qvec)

\* C14: query(v, k) returns min(k, size) entries of the index, each once:
\* never more than k nor than the index holds, all of them when the index
\* has no more than k, none for k = 0 or an empty index; with k = 3 and a
\* one-document index, at most one.
C14_QuerySize ==
  pc = "queried" =>
    /\ Len(context) <= agent.k
    /\ Len(context) <= Len(vector_store)
    /\ Len(context) = Min(agent.k, Len(vector_store))
    /\ \A i \in 1..Len(context) : context[i] \in StoreDocs
    /\ \A i, j \in 1..Len(context) : i # j => context[i] # context[j]
    /\ Len(vector_store) <= agent.k =>
         {context[i] : i \in 1..Len(context)} = StoreDocs
    /\ (agent.k = 0 \/ vector_store = <<>>) => context = <<>>
    /\ (agent.k = TOP_K_RESULTS /\ Len(vector_store) = 1) => Len(context) <= 1

\* C14 witness: an index of three entries asked for two gave two.
C14_Witness ==
  /\ pc = "queried"
  /\ Len(vector_store) = 3
  /\ agent.k = 2
  /\ Len(context) = 2

\* C15: the results come in non-increasing score, and of two results with
\* the same score the one inserted earlier comes first.
C15_QueryOrder ==
  pc = "queried" =>
    \A i, j \in 1..Len(context) :
      i < j =>
        /\ ScoreOf(context[i]) >= ScoreOf(context[j])
        /\ ScoreOf(context[i]) = ScoreOf(context[j]) =>
             PosOf(context[i]) < PosOf(context[j])

\* C15 witness: two results with the same score and one with a lower one.
C15_Witness ==
  /\ pc = "queried"
  /\ Len(context) = 3
  /\ ScoreOf(context[1]) = ScoreOf(context[2])
  /\ ScoreOf(context[2]) > ScoreOf(context[3])
  /\ PosOf(context[3]) = 1

C17_LoopIoFailureFatal ==
  \A i \in 1..Len(trace) :
    (trace[i].ev \in {"prompt", "read_line"} /\ ~trace[i].ok) =>
      /\ Len(trace) = i + 1
      /\ trace[i + 1].ch = "stderr"
      /\ trace[i + 1].ev = "fatal"
      /\ pc = "exited"
      /\ exitStatus = 1
      /\ ~HasEvent("goodbye")

\* C17 witness: the second read failed, after an answered query.
C17_Witness ==
  /\ pc = "exited"
  /\ HasEvent("response")
  /\ trace[Len(trace) - 1].ev = "read_line"
  /\ ~trace[Len(trace) - 1].ok

\* Every effect named b comes after a successful effect named a.
Gate(a, b) ==
  \A j \in 1..Len(trace) :
    trace[j].ev = b =>
      \E i \in 1..(j - 1) : trace[i].ev = a /\ trace[i].ok

\* C18: startup runs client, PDF load, document embedding and index build,
\* agent, ready banner, each only after the one before succeeded; the
\* embedding service is called only with the whole extracted text, and the
\* banner is printed only when every step has succeeded and the agent is
\* built.
C18_StartupOrder ==
  /\ \A i, j \in 1..Len(trace) :
       (i < j /\ trace[i].ev \in InitOps \cup {"ready"}) =>
         trace[i].ev # trace[j].ev
  /\ Gate("create_client", "path_exists")
  /\ Gate("path_exists", "extract_text")
  /\ Gate("extract_text", "add_document")
  /\ Gate("add_document", "embed_document")
  /\ Gate("extract_text", "embed_query")
  /\ \A j \in 1..Len(trace) :
       trace[j].ev \in {"add_document", "embed_document"} =>
         (fs[PDF_PATH] \in Docs /\ trace[j].arg = fs[PDF_PATH])
  /\ agent # NoAgent =>
       /\ \E i \in 1..Len(trace) : trace[i].ev = "embed_document" /\ trace[i].ok
       /\ agent.index = FromDocuments(fs[PDF_PATH])
  /\ \A n \in InitOps : Gate(n, "ready")
  /\ HasEvent("ready") => agent # NoAgent
  /\ \A i \in 1..Len(trace) :
       trace[i].ev \in LoopEvents =>
         \E j \in 1..i : trace[j].ev = "ready"

\* C18 witness: the banner has just been printed.
C18_Witness ==
  /\ pc = "prompt"
  /\ Last(trace).ev = "ready"

\* The lines that are queries: not blank and not a command.
IsQuery(line) == ~Blank(line) /\ ~IsCommand(line)

\* C19: every string passed to agent.prompt is the line read for that turn
\* without its surrounding whitespace: not empty, no whitespace at either
\* end, not exit or quit; a line that is a query is followed by exactly one
\* call and any other line by none.
C19_QueryIsTrimmedLine ==
  /\ \A i \in Positions("agent_prompt") :
       LET q == trace[i].arg
       IN  /\ q # <<>>
           /\ q[1] \notin WhiteSpace
           /\ q[Len(q)] \notin WhiteSpace
           /\ q # EXIT /\ q # QUIT
           /\ i > 2
           /\ trace[i - 2].ev = "read_line"
           /\ Padded(trace[i - 2].arg, q)
  /\ \A r \in Positions("read_line") :
       LET calls == {i \in Positions("agent_prompt") :
                       /\ r < i
                       /\ \A m \in Positions("read_line") : ~(r < m /\ m < i)}
       IN  IF trace[r].ok /\ IsQuery(trace[r].arg)
           THEN /\ Cardinality(calls) <= 1
                /\ calls = {} => (pc \in {"match", "call"} /\ r >= Len(trace) - 1)
           ELSE calls = {}

\* C19 witness: the line "exit now" has been passed to the agent without
\* its line terminator.
C19_Witness ==
  /\ pc = "embed_query"
  /\ Last(trace).arg = <<"e", "x", "i", "t", SP, "n", "o", "w">>
====
